---- MODULE Spec2Model ----
(***************************************************************************)
(* Model of the retrieval-augmented generation core of qapsula_gpt2:       *)
(* the multi-tenant registry (app/core/rag_manager.py), the pipeline       *)
(* (app/rag/rag_pipeline.py), the retriever, the generator and the FAISS   *)
(* vector store.                                                           *)
(*                                                                         *)
(* The program runs on one asyncio event loop.  A coroutine runs without   *)
(* interruption until it awaits something that really suspends: the        *)
(* embedding capability (aembed_documents, aembed_query) or the generation *)
(* capability (llm.generate).  Awaiting a coroutine that itself never      *)
(* suspends (_initialize_llm, FAISSVectorStore.load/save) does not yield.  *)
(* Every action below is therefore the code between two suspension points. *)
(***************************************************************************)
EXTENDS Integers, Sequences, FiniteSets, TLC

\* ------------------------------------------------------------------ bounds
\* Number of instance tuples (LLM, vector store, pipeline) that may be
\* constructed in one behaviour; object identities are 1..MaxInstances.
MaxInstances == 2
\* Number of documents up to which the harness goes on ingesting texts.
MaxDocs == 3
\* Length up to which texts are given to the chunker, and number of chunks after
\* which a run of the chunker is no longer followed.
MaxTextLen == 6
MaxChunks == 6

\* ------------------------------------------------------------- fixed sets
Tenants == {"a", "b"}
\* Every string a caller may pass as tenant_id: the tenants, tenant a's id in upper
\* case, and the empty string.
TenantIds == Tenants \cup {"A", ""}
Slots == {1, 2}
Files == {"f1.txt", "f2.txt"}
\* The document files that may appear under each tenant's documents directory.
TenantFiles(t) == IF t = "a" THEN {"f1.txt", "f2.txt"} ELSE {"f1.txt"}
Questions == {"q0", "q1"}
None == 0
Ids == 1..MaxInstances

\* --------------------------------------------------------------- rationals
\* Scores, thresholds and confidences are exact fractions <<num, den>>, den > 0.
RLeq(x, y) == x[1] * y[2] <= y[1] * x[2]
RAdd(x, y) == <<x[1] * y[2] + y[1] * x[2], x[2] * y[2]>>
REq(x, y) == x[1] * y[2] = y[1] * x[2]
RZero == <<0, 1>>

\* ------------------------------------------------- the world outside the core
\* Chunk contents of the file `f` of tenant `t` (the text read by ingest_file and
\* cut by _chunk_text; these files are shorter than one chunk, "f2.txt" of
\* tenant b is empty).
FileChunks(t, f) ==
    CASE t = "a" /\ f = "f1.txt" -> <<"a1">>
      [] t = "a" /\ f = "f2.txt" -> <<"a2">>
      [] t = "b" /\ f = "f1.txt" -> <<"b1">>
      [] OTHER -> <<>>

\* The embedding capability: one vector per text, here of one dimension.
Embed(text) ==
    CASE text = "a1" -> 0
      [] text = "a2" -> 2
      [] text = "b1" -> 1
      [] text = "t1" -> 0
      [] text = "t2" -> 1
      [] text = "t2b" -> 1
      [] text = "q0" -> 0
      [] text = "q1" -> 3
      [] text = "u1" -> 3
      [] OTHER -> 7

\* Tenant configurations (explicit argument, config.yaml or environment).
\* `credential` says whether what the LLM type requires is found: an API key in
\* the config or the environment for openrouter and openai, model_path in the
\* config for local.
CfgOpenRouter ==
    [llm_type |-> "openrouter", credential |-> TRUE, top_k |-> 1, rag_threshold |-> <<1, 2>>]
CfgNoKey ==
    [llm_type |-> "openrouter", credential |-> FALSE, top_k |-> 1, rag_threshold |-> <<1, 2>>]
Configs == {CfgOpenRouter, CfgNoKey}
\* Every llm_type a configuration may name ("unknown": none of the three known
\* ones), with and without what it requires.
LLMTypes == {"openrouter", "openai", "local", "unknown"}
AllConfigs ==
    [llm_type : LLMTypes, credential : BOOLEAN, top_k : {1}, rag_threshold : {<<1, 2>>}]

\* ------------------------------------------------------------ vector store
\* FAISSVectorStore.__init__: an empty IndexFlatL2 and an empty document list.
NewStore == [index |-> <<>>, documents |-> <<>>]

\* Document built by ingest_text for chunk number i of file f of tenant t:
\* metadata source = file name, file_path = the path under the tenant's directory.
ChunkDocument(t, f, i) ==
    [content |-> FileChunks(t, f)[i], source |-> f, file_path |-> <<t, f>>, chunk_id |-> i - 1]

\* The same with every tenant reading tenant a's directory (a path built without
\* the tenant id).
FileDocuments_SharedDirectory(t, f) ==
    [i \in 1..Len(FileChunks("a", f)) |-> ChunkDocument("a", f, i)]

FileDocuments(t, f) == [i \in 1..Len(FileChunks(t, f)) |-> ChunkDocument(t, f, i)]

\* add_documents after aembed_documents has returned: the vectors go into the
\* index, then each document is appended to the list.
\* The same with the vectors added and the documents not appended.
AddDocuments_VectorsOnly(store, docs) ==
    [index |-> store.index \o [i \in 1..Len(docs) |-> Embed(docs[i].content)],
     documents |-> store.documents]

AddDocuments(store, docs) ==
    [index |-> store.index \o [i \in 1..Len(docs) |-> Embed(docs[i].content)],
     documents |-> store.documents \o docs]

\* Squared L2 distance of IndexFlatL2 and the similarity 1 / (1 + distance).
Distance(x, y) == (x - y) * (x - y)
Similarity(d) == <<1, 1 + d>>

Min(x, y) == IF x <= y THEN x ELSE y

\* index.search: the k nearest positions, nearest first, ties by position.
RECURSIVE Nearest(_, _, _, _)
Nearest(index, q, k, taken) ==
    IF k = 0 \/ DOMAIN index \ taken = {}
    THEN <<>>
    ELSE LET cand == DOMAIN index \ taken
             best == CHOOSE i \in cand : \A j \in cand :
                        \/ Distance(q, index[i]) < Distance(q, index[j])
                        \/ Distance(q, index[i]) = Distance(q, index[j]) /\ i <= j
         IN <<best>> \o Nearest(index, q, k - 1, taken \cup {best})

\* similarity_search once the query embedding is there: k is clamped to the index
\* size, a hit whose position has no document is skipped.
RECURSIVE HitsToResults(_, _, _)
HitsToResults(store, q, hits) ==
    IF hits = <<>>
    THEN <<>>
    ELSE LET idx == Head(hits)
             rest == HitsToResults(store, q, Tail(hits))
         IN IF idx <= Len(store.documents)
            THEN <<[doc |-> store.documents[idx],
                    score |-> Similarity(Distance(q, store.index[idx]))]>> \o rest
            ELSE rest

\* The same with the clamp one short.
SimilaritySearch_ClampOneShort(store, q, k) ==
    HitsToResults(store, q, Nearest(store.index, q, Min(k, Len(store.index) - 1), {}))

SimilaritySearch(store, q, k) ==
    HitsToResults(store, q, Nearest(store.index, q, Min(k, Len(store.index)), {}))

\* --------------------------------------------------------------------- state
VARIABLES
    generatorParams,  \* keyword parameters Generator.__init__ accepts in this build
    pipelines,        \* RAGManager._pipelines: tenant -> pipeline id, None when absent
    llms,             \* RAGManager._llms
    vectorstores,     \* RAGManager._vectorstores
    nextId,           \* identity of the next object constructed
    llmObjs,          \* heap: LLM objects (their class), "none" before construction
    stores,           \* heap: FAISSVectorStore objects
    pipes,            \* heap: RAGPipeline objects (with their retriever and generator)
    disk,             \* per tenant: the persisted vector store under DATA_DIR
    docFiles,         \* per tenant: files under DATA_DIR/<tenant>/documents
    harness,          \* the pipeline built outside the registry (test_example.py), or None
    task              \* per slot: the coroutine running there, at its suspension point

vars == <<generatorParams, pipelines, llms, vectorstores, nextId, llmObjs, stores,
          pipes, disk, docFiles, harness, task>>

\* Generator.__init__(self, llm) as it stands in rag_generator.py.
GeneratorInitParams == {"llm"}
\* The Generator the registry is written against: it owns the system prompt.
GeneratorWithPromptParams == {"llm", "system_prompt"}

NoPipe == [vectorstore |-> None, top_k |-> 0, llm |-> None, use_rag_threshold |-> RZero]
Idle == [op |-> "idle"]
NoDisk == [state |-> "absent", index |-> <<>>, documents |-> <<>>]

Init ==
    /\ generatorParams \in {GeneratorInitParams, GeneratorWithPromptParams}
    /\ pipelines = [t \in TenantIds |-> None]
    /\ llms = [t \in TenantIds |-> None]
    /\ vectorstores = [t \in TenantIds |-> None]
    /\ nextId = 1
    /\ llmObjs = [n \in Ids |-> "none"]
    /\ stores = [n \in Ids |-> NewStore]
    /\ pipes = [n \in Ids |-> NoPipe]
    /\ disk = [t \in TenantIds |-> NoDisk]
    /\ docFiles = [t \in TenantIds |-> {}]
    /\ harness = None
    /\ task = [i \in Slots |-> Idle]

\* ------------------------------------------------------------------ registry
\* get_pipeline / get_llm / get_vectorstore: dict.get, None when absent.
get_pipeline(t) == pipelines[t]
get_llm(t) == llms[t]
get_vectorstore(t) == vectorstores[t]
list_tenants == {t \in TenantIds : pipelines[t] # None}

\* _initialize_llm: raises ValueError when no API key (no model_path for local) is
\* to be found or the type is none of the known ones, otherwise constructs the LLM
\* of the configured type.
\* The same with a built-in key or path standing in for a missing one.
LLMConfigOk_DefaultsSecret(cfg) == cfg.llm_type \in {"openrouter", "openai", "local"}

LLMConfigOk(cfg) == cfg.credential /\ cfg.llm_type \in {"openrouter", "openai", "local"}

\* The documents directory listed in path order.
FileOrder == <<"f1.txt", "f2.txt">>
IsIn(S) == [f \in Files |-> f \in S]
ListFiles(S) == LET in == IsIn(S) IN SelectSeq(FileOrder, LAMBDA f : in[f])

\* ingest_directory runs on through the files whose ingestion never suspends (an
\* empty text: add_documents returns at once) up to the first file whose chunks
\* have to be embedded.
RECURSIVE SkipToEmbedding(_, _)
SkipToEmbedding(t, files) ==
    IF files = <<>> THEN <<>>
    ELSE IF FileChunks(t, Head(files)) = <<>> THEN SkipToEmbedding(t, Tail(files))
    ELSE files

\* ingest_directory after the file Head(files) was ingested or failed (lines
\* 120-125: the failure is printed and the loop goes on): the files still to embed.
\* The same with the loop left at the first failure.
RemainingFiles_AbortOnFailure(t, files, ok) ==
    IF ok THEN SkipToEmbedding(t, Tail(files)) ELSE <<>>

RemainingFiles(t, files, ok) == SkipToEmbedding(t, Tail(files))

\* A finished call, until its caller takes the result: the pipeline returned, or
\* the exception raised.
Returned(t, p) == [op |-> "finished", tenant |-> t, pc |-> "returned", result |-> p]
Raised(t, why) == [op |-> "finished", tenant |-> t, pc |-> "raised", result |-> why]

\* Generator(llm=llm, system_prompt=...): TypeError unless __init__ accepts both.
GeneratorConstructs == {"llm", "system_prompt"} \subseteq generatorParams

\* self._pipelines[tenant_id] = pipeline (and the like for the two other maps).
\* The same as a setdefault: an entry that exists is kept.
Registered_KeepsExisting(m, t, n) == IF m[t] # None THEN m ELSE [m EXCEPT ![t] = n]

Registered(m, t, n) == [m EXCEPT ![t] = n]

\* Retriever(vectorstore, top_k), Generator(llm), RAGPipeline(retriever, generator,
\* use_rag_threshold) built from the call's own vector store and LLM.
NewPipeline(vectorstore, llm, cfg) ==
    [vectorstore |-> vectorstore, top_k |-> cfg.top_k, llm |-> llm,
     use_rag_threshold |-> cfg.rag_threshold]

\* initialize_tenant lines 101-127: register the vector store, build retriever,
\* generator and pipeline, register the pipeline.  P and V are the registry maps
\* the call sees.
CompleteInitialization(i, t, n, cfg, P, V) ==
    /\ vectorstores' = Registered(V, t, n)
    /\ IF GeneratorConstructs
       THEN /\ pipes' = [pipes EXCEPT ![n] = NewPipeline(n, n, cfg)]
            /\ pipelines' = Registered(P, t, n)
            /\ task' = [task EXCEPT ![i] = Returned(t, n)]
       ELSE /\ pipes' = pipes
            /\ pipelines' = P
            /\ task' = [task EXCEPT ![i] = Raised(t, "TypeError")]

\* FAISSVectorStore.save / load on the tenant's persisted location.
SavedStore(store) == [state |-> "saved", index |-> store.index, documents |-> store.documents]
\* load without the documents file.
LoadedStore_IndexOnly(d) == [index |-> d.index, documents |-> <<>>]

LoadedStore(d) == [index |-> d.index, documents |-> d.documents]

\* Line 65: tenant_id in self._pipelines and not force_reload.
\* The same with the flag inverted.
AlreadyInitialized_FlagInverted(P, t, force) == P[t] # None /\ force

AlreadyInitialized(P, t, force) == P[t] # None /\ ~force

\* initialize_tenant from its first line up to its first suspension point (or its
\* end), seeing registry maps P, L, V.
RunInitialization(i, op, t, cfg, force, P, L, V) ==
    IF AlreadyInitialized(P, t, force)
    THEN \* lines 64-67: already initialized
         /\ task' = [task EXCEPT ![i] = Returned(t, P[t])]
         /\ pipelines' = P /\ llms' = L /\ vectorstores' = V
         /\ UNCHANGED <<nextId, llmObjs, stores, pipes, disk>>
    ELSE IF ~LLMConfigOk(cfg)
    THEN \* line 92 raises
         /\ task' = [task EXCEPT ![i] = Raised(t, "ValueError")]
         /\ pipelines' = P /\ llms' = L /\ vectorstores' = V
         /\ UNCHANGED <<nextId, llmObjs, stores, pipes, disk>>
    ELSE LET n == nextId
             files == SkipToEmbedding(t, ListFiles(docFiles[t]))
         IN /\ nextId <= MaxInstances
            /\ nextId' = n + 1
            /\ llmObjs' = [llmObjs EXCEPT ![n] = cfg.llm_type]
            /\ llms' = Registered(L, t, n)
            /\ CASE disk[t].state = "saved" ->
                      /\ stores' = [stores EXCEPT ![n] = LoadedStore(disk[t])]
                      /\ UNCHANGED disk
                      /\ CompleteInitialization(i, t, n, cfg, P, V)
                 [] disk[t].state = "absent" /\ docFiles[t] = {} ->
                      /\ UNCHANGED <<stores, disk>>
                      /\ CompleteInitialization(i, t, n, cfg, P, V)
                 [] disk[t].state = "absent" /\ docFiles[t] # {} /\ files = <<>> ->
                      /\ UNCHANGED stores
                      /\ disk' = [disk EXCEPT ![t] = SavedStore(stores[n])]
                      /\ CompleteInitialization(i, t, n, cfg, P, V)
                 [] disk[t].state = "absent" /\ docFiles[t] # {} /\ files # <<>> ->
                      \* suspended in aembed_documents for the file Head(files)
                      /\ task' = [task EXCEPT ![i] =
                                    [op |-> op, tenant |-> t, cfg |-> cfg, inst |-> n,
                                     files |-> files, total |-> 0, failed |-> <<>>]]
                      /\ pipelines' = P /\ vectorstores' = V
                      /\ UNCHANGED <<stores, pipes, disk>>

InitializationOps == {"initialize_tenant", "initialize_tenant_force", "reload_tenant"}

\* A caller starts initialize_tenant(t, config, force_reload).
InitializeTenant(i, t, cfg, force) ==
    /\ task[i] = Idle
    /\ RunInitialization(i, IF force THEN "initialize_tenant_force" ELSE "initialize_tenant",
                         t, cfg, force, pipelines, llms, vectorstores)
    /\ UNCHANGED <<generatorParams, docFiles, harness>>

\* A caller starts reload_tenant(t): the three entries are deleted, then
\* initialize_tenant(t, force_reload=True) runs with the configuration loaded
\* from the tenant's file or the environment.
Deleted(m, t) == [m EXCEPT ![t] = None]

ReloadTenant(i, t, cfg) ==
    /\ task[i] = Idle
    /\ RunInitialization(i, "reload_tenant", t, cfg, TRUE,
                         Deleted(pipelines, t), Deleted(llms, t), Deleted(vectorstores, t))
    /\ UNCHANGED <<generatorParams, docFiles, harness>>

\* aembed_documents returns (ok) or raises (~ok: ingest_directory logs and skips
\* the file) inside an initialization; the coroutine runs on to its next
\* suspension point or to the end of initialize_tenant.
InitializationEmbedded(i, ok) ==
    /\ task[i].op \in InitializationOps
    /\ LET me == task[i]
           t == me.tenant
           n == me.inst
           f == Head(me.files)
           store == IF ok THEN AddDocuments(stores[n], FileDocuments(t, f)) ELSE stores[n]
           files == RemainingFiles(t, me.files, ok)
       IN /\ stores' = [stores EXCEPT ![n] = store]
          /\ IF files # <<>>
             THEN /\ task' = [task EXCEPT ![i] =
                                [me EXCEPT !.files = files,
                                           !.total = IF ok THEN @ + Len(FileChunks(t, f)) ELSE @,
                                           !.failed = IF ok THEN @ ELSE Append(@, f)]]
                  /\ UNCHANGED <<pipelines, vectorstores, pipes, disk>>
             ELSE /\ disk' = [disk EXCEPT ![t] = SavedStore(store)]
                  /\ CompleteInitialization(i, t, n, me.cfg, pipelines, vectorstores)
    /\ UNCHANGED <<generatorParams, llms, nextId, llmObjs, docFiles, harness>>

\* The caller takes the result (or the exception) of a finished call.
Release(i) ==
    /\ task[i].op \in {"finished", "finished_query", "finished_ingest", "finished_chunks"}
    /\ task' = [task EXCEPT ![i] = Idle]
    /\ UNCHANGED <<generatorParams, pipelines, llms, vectorstores, nextId, llmObjs, stores,
                   pipes, disk, docFiles, harness>>

\* ------------------------------------------------------------- environment
\* The operator puts a document file under the tenant's documents directory.
PutDocumentFile(t, f) ==
    /\ f \notin docFiles[t]
    /\ docFiles' = [docFiles EXCEPT ![t] = @ \cup {f}]
    /\ UNCHANGED <<generatorParams, pipelines, llms, vectorstores, nextId, llmObjs, stores,
                   pipes, disk, harness, task>>

\* ------------------------------------------------------- retriever, generator
\* Retriever.retrieve: k = k or self.top_k, then similarity_search.
EffectiveK(k, top_k) == IF k # 0 THEN k ELSE top_k

\* Retriever.retrieve_with_threshold line 46: keep score >= threshold, in order.
\* The same with a strict comparison.
PassesThreshold_Strict(score, threshold) == RLeq(threshold, score) /\ ~REq(threshold, score)

PassesThreshold(score, threshold) == RLeq(threshold, score)
FilterByThreshold(results, threshold) ==
    SelectSeq(results, LAMBDA r : PassesThreshold(r.score, threshold))

\* Retriever.retrieve once the query embedding is there.
Retrieve(store, question, k, top_k) ==
    SimilaritySearch(store, Embed(question), EffectiveK(k, top_k))

RetrieveWithThreshold(store, question, threshold, k, top_k) ==
    FilterByThreshold(Retrieve(store, question, k, top_k), threshold)

\* RAGPipeline.query lines 79-86: sources in order of first appearance.
\* The same without the membership test.
CollectSources_NoDedupe(documents, sources) ==
    sources \o [j \in 1..Len(documents) |-> documents[j].doc.source]

RECURSIVE CollectSources(_, _)
CollectSources(documents, sources) ==
    IF documents = <<>> THEN sources
    ELSE LET source == Head(documents).doc.source
         IN CollectSources(Tail(documents),
                           IF \E j \in DOMAIN sources : sources[j] = source
                           THEN sources ELSE Append(sources, source))

\* Lines 80-88: total_confidence / len(documents).
RECURSIVE TotalConfidence(_)
TotalConfidence(documents) ==
    IF documents = <<>> THEN RZero
    ELSE RAdd(Head(documents).score, TotalConfidence(Tail(documents)))

\* The same without the division.
AvgConfidence_Total(documents) == TotalConfidence(documents)

AvgConfidence(documents) ==
    IF documents = <<>> THEN RZero
    ELSE LET total == TotalConfidence(documents)
         IN <<total[1], total[2] * Len(documents)>>

\* What llm.generate can do, by LLM class: return the model's text, return an
\* error message as if it were the text, or (OpenRouterLLM, on a network error)
\* raise.
GenerationOutcomes(class) ==
    IF class = "openrouter" THEN {"text", "error_text", "raise"} ELSE {"text", "error_text"}

\* The generation call query makes once retrieval is through (lines 59-76).
\* The same always taking the grounded call.
GenerationPath_AlwaysGrounded(documents) == "generate"

GenerationPath(documents) == IF documents = <<>> THEN "generate_without_context" ELSE "generate"

\* RAGResponse of lines 65-69 and 90-94.
Response(answer, path, documents) ==
    IF path = "generate"
    THEN [answer |-> answer, sources |-> CollectSources(documents, <<>>),
          confidence |-> AvgConfidence(documents)]
    ELSE [answer |-> answer, sources |-> <<>>, confidence |-> RZero]

\* ------------------------------------------------------------------ pipeline
\* query's top_k parameter: its default when the caller passes none, else the
\* value passed.
DefaultTopK == 3
QueryTopKArgs == {[passed |-> FALSE, value |-> DefaultTopK], [passed |-> TRUE, value |-> 1]}

\* The pipelines a caller can hold: a registered one (get_pipeline) or the harness's.
Callable == ({pipelines[t] : t \in TenantIds} \cup {harness}) \ {None}

\* The query has retrieved `documents` and calls the generator, where it suspends.
Generating(me, documents) ==
    LET path == GenerationPath(documents)
    IN [me EXCEPT !.pc = "generate", !.documents = documents, !.path = path,
                  !.calls = Append(@, path)]

\* Where query goes first: line 40 (use_rag false: straight to the generator),
\* similarity_search line 52 (empty index: no results, nothing embedded), or on
\* to aembed_query.
\* The same with use_rag ignored.
Route_IgnoresUseRag(use_rag, ntotal) == IF ntotal = 0 THEN "no_results" ELSE "embed_query"

Route(use_rag, ntotal) ==
    IF ~use_rag THEN "direct" ELSE IF ntotal = 0 THEN "no_results" ELSE "embed_query"

\* RAGPipeline.query(question, use_rag=use_rag, top_k=k) on pipeline p, up to its
\* first suspension point.  `calls` records the retriever and generator calls,
\* `via` the tenants whose get_pipeline gave the caller this pipeline.
Query(i, p, question, use_rag, k) ==
    /\ task[i] = Idle
    /\ p \in Callable
    /\ LET me == [op |-> "query", pipe |-> p, question |-> question, use_rag |-> use_rag,
                  top_k |-> k.value, top_k_passed |-> k.passed, pc |-> "start", documents |-> <<>>, path |-> "none",
                  calls |-> <<>>, via |-> {t \in TenantIds : get_pipeline(t) = p}]
           route == Route(use_rag, Len(stores[pipes[p].vectorstore].index))
       IN task' = [task EXCEPT ![i] =
                     CASE route = "direct" -> Generating(me, <<>>)
                       [] route = "no_results" ->
                            Generating([me EXCEPT !.calls = <<"retrieve_with_threshold">>], <<>>)
                       [] OTHER ->
                            [me EXCEPT !.pc = "embed_query",
                                       !.calls = <<"retrieve_with_threshold", "aembed_query">>]]
    /\ UNCHANGED <<generatorParams, pipelines, llms, vectorstores, nextId, llmObjs, stores,
                   pipes, disk, docFiles, harness>>

FinishedQuery(me, pc, response) ==
    [op |-> "finished_query", pc |-> pc, pipe |-> me.pipe, question |-> me.question,
     use_rag |-> me.use_rag, top_k |-> me.top_k, top_k_passed |-> me.top_k_passed,
     documents |-> me.documents,
     path |-> me.path, calls |-> me.calls, via |-> me.via, response |-> response]

NoResponse == [answer |-> "none", sources |-> <<>>, confidence |-> RZero]

\* similarity_search lines 57-71 read self.index and self.documents and assign
\* neither: the store after a search.
\* The same with the hits taken out of the store.
SearchedStore_ConsumesHits(store) == NewStore

SearchedStore(store) == store

\* aembed_query returns (ok) or raises inside similarity_search.
QueryEmbedded(i, ok) ==
    /\ task[i].op = "query"
    /\ task[i].pc = "embed_query"
    /\ LET me == task[i]
           pipe == pipes[me.pipe]
           documents == RetrieveWithThreshold(stores[pipe.vectorstore], me.question,
                                              pipe.use_rag_threshold, me.top_k, pipe.top_k)
       IN /\ task' = [task EXCEPT ![i] =
                        IF ok THEN Generating(me, documents)
                        ELSE FinishedQuery(me, "raised", NoResponse)]
          /\ stores' = [stores EXCEPT ![pipe.vectorstore] = IF ok THEN SearchedStore(@) ELSE @]
    /\ UNCHANGED <<generatorParams, pipelines, llms, vectorstores, nextId, llmObjs,
                   pipes, disk, docFiles, harness>>

\* The caller abandons the query at its suspension point (aembed_query or
\* llm.generate): CancelledError is raised there and passes through query, which
\* has no except and no finally.
AbandonQuery(i) ==
    /\ task[i].op = "query"
    /\ task' = [task EXCEPT ![i] = FinishedQuery(task[i], "cancelled", NoResponse)]
    /\ UNCHANGED <<generatorParams, pipelines, llms, vectorstores, nextId, llmObjs, stores,
                   pipes, disk, docFiles, harness>>

\* llm.generate returns or raises; query builds its RAGResponse.
QueryGenerated(i, outcome) ==
    /\ task[i].op = "query"
    /\ task[i].pc = "generate"
    /\ outcome \in GenerationOutcomes(llmObjs[pipes[task[i].pipe].llm])
    /\ LET me == task[i]
       IN task' = [task EXCEPT ![i] =
                     IF outcome = "raise"
                     THEN FinishedQuery(me, "raised", NoResponse)
                     ELSE FinishedQuery(me, "returned",
                                        Response(outcome, me.path, me.documents))]
    /\ UNCHANGED <<generatorParams, pipelines, llms, vectorstores, nextId, llmObjs, stores,
                   pipes, disk, docFiles, harness>>

\* ------------------------------------------------------------------- harness
\* test_example.py: an OpenAILLM, an empty FAISSVectorStore, Retriever(top_k=2),
\* Generator(llm) and RAGPipeline with the default threshold 0.5, outside the
\* registry.
HarnessConfig == [llm_type |-> "openai", credential |-> TRUE, top_k |-> 2,
                  rag_threshold |-> <<1, 2>>]

TestSetup ==
    /\ harness = None
    /\ nextId <= MaxInstances
    /\ nextId' = nextId + 1
    /\ harness' = nextId
    /\ llmObjs' = [llmObjs EXCEPT ![nextId] = HarnessConfig.llm_type]
    /\ stores' = [stores EXCEPT ![nextId] = NewStore]
    /\ pipes' = [pipes EXCEPT ![nextId] = NewPipeline(nextId, nextId, HarnessConfig)]
    /\ UNCHANGED <<generatorParams, pipelines, llms, vectorstores, disk, docFiles, task>>

\* The texts the harness ingests: their chunks and their source metadata.
Texts == {"t1", "t2"}
TextChunks(x) == IF x = "t1" THEN <<"t1">> ELSE <<"t2", "t2b">>
TextDocuments(x) ==
    [i \in 1..Len(TextChunks(x)) |->
        [content |-> TextChunks(x)[i], source |-> x, file_path |-> <<>>, chunk_id |-> i - 1]]

\* ingest_text(text, metadata) on the harness's store, up to aembed_documents.
IngestText(i, x) ==
    /\ task[i] = Idle
    /\ harness # None
    /\ Len(stores[harness].index) + Len(TextChunks(x)) <= MaxDocs
    /\ task' = [task EXCEPT ![i] = [op |-> "ingest_text", store |-> harness, text |-> x]]
    /\ UNCHANGED <<generatorParams, pipelines, llms, vectorstores, nextId, llmObjs, stores,
                   pipes, disk, docFiles, harness>>

\* aembed_documents returns (ok) or raises inside add_documents.
IngestEmbedded(i, ok) ==
    /\ task[i].op = "ingest_text"
    /\ LET me == task[i]
       IN /\ stores' = [stores EXCEPT ![me.store] =
                          IF ok THEN AddDocuments(@, TextDocuments(me.text)) ELSE @]
          /\ task' = [task EXCEPT ![i] =
                        [op |-> "finished_ingest", pc |-> IF ok THEN "returned" ELSE "raised",
                         result |-> IF ok THEN Len(TextChunks(me.text)) ELSE 0]]
    /\ UNCHANGED <<generatorParams, pipelines, llms, vectorstores, nextId, llmObjs,
                   pipes, disk, docFiles, harness>>

\* ------------------------------------------------------------------- chunker
\* Texts are sequences of characters: a letter, the full stop and the newline
\* (which is also white space).
Alphabet == {"a", ".", "\n"}
Whitespace == {"\n"}
RECURSIVE TextsOfLength(_)
TextsOfLength(n) ==
    IF n = 0 THEN {<<>>}
    ELSE {Append(text, c) : text \in TextsOfLength(n - 1), c \in Alphabet}
AllTexts == UNION {TextsOfLength(n) : n \in 0..MaxTextLen}
ChunkSizes == {2, 5}

\* text[start:end] for 0 <= start.
Slice(text, start, end) == SubSeq(text, start + 1, Min(end, Len(text)))

\* str.rfind(c) + 1: the last position of c, 0 when there is none.
RFind(chunk, c) ==
    IF \E j \in DOMAIN chunk : chunk[j] = c
    THEN CHOOSE j \in DOMAIN chunk : chunk[j] = c /\ \A h \in DOMAIN chunk : chunk[h] = c => h <= j
    ELSE 0

\* str.strip(): white space removed at both ends.
RECURSIVE LStrip(_)
LStrip(chunk) ==
    IF chunk # <<>> /\ Head(chunk) \in Whitespace THEN LStrip(Tail(chunk)) ELSE chunk
RECURSIVE RStrip(_)
RStrip(chunk) ==
    IF chunk # <<>> /\ chunk[Len(chunk)] \in Whitespace
    THEN RStrip(SubSeq(chunk, 1, Len(chunk) - 1)) ELSE chunk
Strip(chunk) == RStrip(LStrip(chunk))

\* Lines 35-42: the number of characters kept of a chunk that does not reach the
\* end of the text: up to the last full stop or newline if that lies beyond the
\* middle of chunk_size, else all of them.
Max(x, y) == IF x >= y THEN x ELSE y
KeptLength(chunk, chunk_size) ==
    LET split_point == Max(RFind(chunk, "."), RFind(chunk, "\n")) - 1
    IN IF split_point > chunk_size \div 2 THEN split_point + 1 ELSE Len(chunk)

\* _chunk_text(text, chunk_size, overlap) is called (lines 26-28).
ChunkText(i, text, chunk_size, overlap) ==
    /\ task[i] = Idle
    /\ task' = [task EXCEPT ![i] =
                  [op |-> "chunk_text", text |-> text, chunk_size |-> chunk_size,
                   overlap |-> overlap, start |-> 0, chunks |-> <<>>]]
    /\ UNCHANGED <<generatorParams, pipelines, llms, vectorstores, nextId, llmObjs, stores,
                   pipes, disk, docFiles, harness>>

\* One turn of the loop of lines 30-45, or the return of line 47.
ChunkStep(i) ==
    /\ task[i].op = "chunk_text"
    /\ LET me == task[i]
           text_len == Len(me.text)
           whole == Slice(me.text, me.start, me.start + me.chunk_size)
           cut == me.start + me.chunk_size < text_len
           chunk == IF cut THEN SubSeq(whole, 1, KeptLength(whole, me.chunk_size)) ELSE whole
           end == IF cut THEN me.start + Len(chunk) ELSE me.start + me.chunk_size
       IN IF me.start < text_len
          THEN /\ Len(me.chunks) < MaxChunks
               /\ task' = [task EXCEPT ![i] =
                             [me EXCEPT !.chunks = Append(@, Strip(chunk)),
                                        !.start = end - me.overlap]]
          ELSE task' = [task EXCEPT ![i] =
                          [op |-> "finished_chunks", text |-> me.text,
                           chunk_size |-> me.chunk_size, overlap |-> me.overlap,
                           chunks |-> me.chunks]]
    /\ UNCHANGED <<generatorParams, pipelines, llms, vectorstores, nextId, llmObjs, stores,
                   pipes, disk, docFiles, harness>>

\* --------------------------------------------------------------- specifications
\* The chunker on every text, chunk size and overlap below the chunk size.
NextChunker ==
    \/ /\ task[1] = Idle
       /\ \E text \in AllTexts, chunk_size \in ChunkSizes :
             \E overlap \in 0..(chunk_size - 1) : ChunkText(1, text, chunk_size, overlap)
    \/ ChunkStep(1)
    \/ Release(1)

SpecChunker == Init /\ [][NextChunker]_vars

\* The registry under two concurrent callers of initialize_tenant / reload_tenant.
NextRegistry ==
    \/ \E i \in Slots, t \in Tenants, cfg \in Configs, force \in BOOLEAN :
          InitializeTenant(i, t, cfg, force)
    \/ \E i \in Slots, t \in Tenants, cfg \in Configs : ReloadTenant(i, t, cfg)
    \/ \E i \in Slots, ok \in BOOLEAN : InitializationEmbedded(i, ok)
    \/ \E i \in Slots : Release(i)
    \/ \E t \in Tenants : \E f \in TenantFiles(t) : PutDocumentFile(t, f)

SpecRegistry == Init /\ [][NextRegistry]_vars

\* One pipeline built as the test harness builds it, under concurrent ingestion
\* and queries.
NextPipeline ==
    \/ TestSetup
    \/ \E i \in Slots, x \in Texts : IngestText(i, x)
    \/ \E i \in Slots, ok \in BOOLEAN : IngestEmbedded(i, ok)
    \/ \E i \in Slots, p \in Ids, q \in Questions, use_rag \in BOOLEAN, k \in QueryTopKArgs :
          Query(i, p, q, use_rag, k)
    \/ \E i \in Slots, ok \in BOOLEAN : QueryEmbedded(i, ok)
    \/ \E i \in Slots, outcome \in {"text", "error_text", "raise"} : QueryGenerated(i, outcome)
    \/ \E i \in Slots : Release(i)

SpecPipeline == Init /\ [][NextPipeline]_vars

\* The same pipeline under one caller at a time: every store the harness can
\* build, every query on it.
NextRetrieval ==
    \/ TestSetup
    \/ \E x \in Texts : IngestText(1, x)
    \/ \E ok \in BOOLEAN : IngestEmbedded(1, ok)
    \/ \E p \in Ids, q \in Questions, use_rag \in BOOLEAN, k \in QueryTopKArgs :
          Query(1, p, q, use_rag, k)
    \/ \E ok \in BOOLEAN : QueryEmbedded(1, ok)
    \/ \E outcome \in {"text", "error_text", "raise"} : QueryGenerated(1, outcome)
    \/ Release(1)

SpecRetrieval == Init /\ [][NextRetrieval]_vars

\* The registry serving queries: slot 1 runs the registry calls, slot 2 the
\* queries of callers that took their pipeline from get_pipeline.
Next ==
    \/ \E t \in Tenants, cfg \in Configs, force \in BOOLEAN : InitializeTenant(1, t, cfg, force)
    \/ \E t \in Tenants, cfg \in Configs : ReloadTenant(1, t, cfg)
    \/ \E ok \in BOOLEAN : InitializationEmbedded(1, ok)
    \/ \E p \in Ids, q \in Questions, use_rag \in BOOLEAN, k \in QueryTopKArgs :
          Query(2, p, q, use_rag, k)
    \/ \E ok \in BOOLEAN : QueryEmbedded(2, ok)
    \/ \E outcome \in {"text", "error_text", "raise"} : QueryGenerated(2, outcome)
    \/ \E i \in Slots : Release(i)
    \/ \E t \in Tenants : \E f \in TenantFiles(t) : PutDocumentFile(t, f)

Spec == Init /\ [][Next]_vars

\* --------------------------------------------------------- document upload
\* The methods of DocumentIngestor (rag_ingest.py), and the methods the upload
\* handler calls on it (fastapi_app.py line 357).
DocumentIngestorMethods == {"ingest_text", "ingest_file", "ingest_directory"}
DocumentIngestorWithUploadMethods == DocumentIngestorMethods \cup {"ingest_document"}
IngestorMethods ==
    IF generatorParams = GeneratorWithPromptParams
    THEN DocumentIngestorWithUploadMethods
    ELSE DocumentIngestorMethods

\* Contents posted to POST /documents/upload (one chunk each).
Uploads == {"u1"}
\* The Document built by upload_document: source "api_upload".
UploadDocuments(x) ==
    <<[content |-> x, source |-> "api_upload", file_path |-> <<>>, chunk_id |-> 0]>>

\* upload_document(tenant_id, doc): get_vectorstore(tenant_id), HTTP 500 when it is
\* absent; otherwise the background ingest_task builds DocumentIngestor on that very
\* store object and calls ingest_document, which raises AttributeError when the
\* ingestor has no such method, and else suspends at aembed_documents.
UploadDocument(i, t, x) ==
    /\ task[i] = Idle
    /\ LET vectorstore == get_vectorstore(t)
       IN /\ vectorstore # None => Len(stores[vectorstore].index) + Len(UploadDocuments(x)) <= MaxDocs
          /\ task' = [task EXCEPT ![i] =
                        IF vectorstore = None
                        THEN [op |-> "finished_ingest", pc |-> "http_500", result |-> 0]
                        ELSE IF "ingest_document" \notin IngestorMethods
                        THEN [op |-> "finished_ingest", pc |-> "raised", result |-> 0]
                        ELSE [op |-> "upload_document", tenant |-> t, store |-> vectorstore,
                              text |-> x]]
    /\ UNCHANGED <<generatorParams, pipelines, llms, vectorstores, nextId, llmObjs, stores,
                   pipes, disk, docFiles, harness>>

\* aembed_documents returns (ok): the documents are added to the store the handler
\* took from the registry and the store is saved; or it raises (~ok) and the
\* background task ends before the save.
UploadEmbedded(i, ok) ==
    /\ task[i].op = "upload_document"
    /\ LET me == task[i]
           store == IF ok THEN AddDocuments(stores[me.store], UploadDocuments(me.text))
                    ELSE stores[me.store]
       IN /\ stores' = [stores EXCEPT ![me.store] = store]
          /\ disk' = [disk EXCEPT ![me.tenant] = IF ok THEN SavedStore(store) ELSE @]
          /\ task' = [task EXCEPT ![i] =
                        [op |-> "finished_ingest", pc |-> IF ok THEN "returned" ELSE "raised",
                         result |-> IF ok THEN Len(UploadDocuments(me.text)) ELSE 0]]
    /\ UNCHANGED <<generatorParams, pipelines, llms, vectorstores, nextId, llmObjs,
                   pipes, docFiles, harness>>

\* The API without reload_tenant: slot 1 runs initialize_tenant (no force_reload)
\* and the uploads, slot 2 the queries through get_pipeline.
NextIngest ==
    \/ \E t \in Tenants, cfg \in Configs : InitializeTenant(1, t, cfg, FALSE)
    \/ \E ok \in BOOLEAN : InitializationEmbedded(1, ok)
    \/ \E t \in Tenants, x \in Uploads : UploadDocument(1, t, x)
    \/ \E ok \in BOOLEAN : UploadEmbedded(1, ok)
    \/ \E p \in Ids, q \in Questions, use_rag \in BOOLEAN, k \in QueryTopKArgs :
          Query(2, p, q, use_rag, k)
    \/ \E ok \in BOOLEAN : QueryEmbedded(2, ok)
    \/ \E outcome \in {"text", "error_text", "raise"} : QueryGenerated(2, outcome)
    \/ \E i \in Slots : Release(i)
    \/ PutDocumentFile("a", "f1.txt")

SpecIngest == Init /\ [][NextIngest]_vars

\* ======================================================================= claims
\* C1: two initialize_tenant calls (no force_reload) for the same tenant that overlap
\* in time never both construct an instance: if both are under way, they are
\* building the same instance.
C1_OverlappingInitializeConstructOnce ==
    \A i, j \in Slots :
        (/\ i # j
         /\ task[i].op = "initialize_tenant"
         /\ task[j].op = "initialize_tenant"
         /\ task[i].tenant = task[j].tenant)
        => task[i].inst = task[j].inst

C4_FailedInitializeRegistersNothing ==
    [][\A i \in Slots, t \in Tenants, cfg \in Configs, force \in BOOLEAN :
          (InitializeTenant(i, t, cfg, force) /\ task'[i].pc = "raised")
          => UNCHANGED <<pipelines, llms, vectorstores>>]_vars

\* Helpers of the statements about queries.
IsQuery(i) == task[i].op \in {"query", "finished_query"}
Returns(i) == task[i].op = "finished_query" /\ task[i].pc = "returned"
Raises(i) == task[i].op = "finished_query" /\ task[i].pc = "raised"
SeqRange(s) == {s[j] : j \in DOMAIN s}
GenerationCalls(calls) ==
    SelectSeq(calls, LAMBDA c : c \in {"generate", "generate_without_context"})
RetrievalCalls(calls) == SelectSeq(calls, LAMBDA c : c = "retrieve_with_threshold")

C7_OneRetrievalThenOneGeneration ==
    \A i \in Slots :
        (IsQuery(i) /\ task[i].use_rag)
        => /\ Len(RetrievalCalls(task[i].calls)) = 1
           /\ task[i].calls[1] = "retrieve_with_threshold"
           /\ Len(GenerationCalls(task[i].calls)) <= 1
           /\ task[i].op = "finished_query"
              => /\ GenerationCalls(task[i].calls) = <<GenerationPath(task[i].documents)>>
                 /\ task[i].calls[Len(task[i].calls)] = GenerationPath(task[i].documents)

\* C8: a query with use_rag true on a pipeline whose index holds no document
\* calls the ungrounded generation once and the grounded one never, and what it
\* returns has confidence 0 and no sources.
C8_EmptyIndexFallback ==
    \A i \in Slots :
        (/\ IsQuery(i)
         /\ task[i].use_rag
         /\ Len(stores[pipes[task[i].pipe].vectorstore].index) = 0)
        => /\ GenerationCalls(task[i].calls) = <<"generate_without_context">>
           /\ Returns(i) => /\ REq(task[i].response.confidence, RZero)
                             /\ task[i].response.sources = <<>>

\* C8 witness: such a query has returned.
C8_Witness ==
    \E i \in Slots :
        /\ Returns(i)
        /\ task[i].use_rag
        /\ Len(stores[pipes[task[i].pipe].vectorstore].index) = 0
        /\ task[i].response.answer = "text"

\* C9: a query with use_rag false makes no retrieval and no embedding call, only
\* one generate_without_context, and returns no sources and confidence 0.
C9_NoRetrievalWithoutRag ==
    \A i \in Slots :
        (IsQuery(i) /\ ~task[i].use_rag)
        => /\ task[i].calls = <<"generate_without_context">>
           /\ task[i].documents = <<>>
           /\ Returns(i) => /\ REq(task[i].response.confidence, RZero)
                             /\ task[i].response.sources = <<>>

\* C9 witness: such a query has returned from a pipeline whose index holds a
\* document the question matches.
C9_Witness ==
    \E i \in Slots :
        /\ Returns(i)
        /\ ~task[i].use_rag
        /\ task[i].question = "q0"
        /\ Len(stores[pipes[task[i].pipe].vectorstore].index) > 0

\* C10: a query never fails because the embedding of its question failed: a query
\* that raises has made a generation call.
C10_EmbeddingFailureRecovered ==
    \A i \in Slots :
        (Raises(i) /\ task[i].use_rag) => GenerationCalls(task[i].calls) # <<>>

\* C11: a failure of the generation capability is never handed back as the answer
\* of a returned RAGResponse: no query returns the LLM's error message as its answer.
C11_GenerationFailureIsDistinct ==
    \A i \in Slots : Returns(i) => task[i].response.answer # "error_text"

\* Thresholds a caller may give retrieve_with_threshold: 0, the 0.3 of the test
\* harness, the default 0.5, and 1.
Thresholds == {<<0, 1>>, <<3, 10>>, <<1, 2>>, <<1, 1>>}
RetrieveKs == {1, 3}

RECURSIVE IsSubsequence(_, _)
IsSubsequence(s, t) ==
    IF s = <<>> THEN TRUE
    ELSE IF t = <<>> THEN FALSE
    ELSE IF Head(s) = Head(t) THEN IsSubsequence(Tail(s), Tail(t))
    ELSE IsSubsequence(s, Tail(t))

\* C12: on every store the harness can build, for every question and k, the
\* thresholded retrieval holds exactly the entries of retrieve(q, k) whose score is
\* at least the threshold (an equal score included), in their order, and the
\* result for a higher threshold is a subsequence of the result for a lower one.
C12_ThresholdMonotone ==
    harness # None =>
      \A q \in Questions, k \in RetrieveKs, t1 \in Thresholds :
        LET store == stores[pipes[harness].vectorstore]
            top_k == pipes[harness].top_k
            base == Retrieve(store, q, k, top_k)
            r1 == RetrieveWithThreshold(store, q, t1, k, top_k)
        IN /\ IsSubsequence(r1, base)
           /\ \A j \in DOMAIN r1 : RLeq(t1, r1[j].score)
           /\ Len(r1) = Cardinality({j \in DOMAIN base : RLeq(t1, base[j].score)})
           /\ \A t2 \in Thresholds :
                RLeq(t2, t1) => IsSubsequence(r1, RetrieveWithThreshold(store, q, t2, k, top_k))

\* C12 witness: the store holds three documents of which, for question q0 and
\* k = 3, one passes threshold 1 and all three pass 0.5 (two of them with a score
\* equal to it), and a query has returned with the documents of its threshold.
C12_Witness ==
    /\ harness # None
    /\ LET store == stores[pipes[harness].vectorstore]
           top_k == pipes[harness].top_k
       IN /\ Len(RetrieveWithThreshold(store, "q0", <<1, 1>>, 3, top_k)) = 1
          /\ Len(RetrieveWithThreshold(store, "q0", <<1, 2>>, 3, top_k)) = 3
          /\ \E i \in Slots :
                /\ Returns(i)
                /\ task[i].documents =
                      RetrieveWithThreshold(store, "q0", pipes[harness].use_rag_threshold, 3, top_k)

\* The k a caller may give similarity_search: from 1 to beyond any index size.
SearchKs == 1..(MaxDocs + 2)

\* C13: on every store the harness can build, similarity_search gives, for every
\* question and every k, as many results as the smaller of k and the index size
\* (all of the index when k exceeds it, none on an empty index); and a query on an
\* empty index gets its empty retrieval without any embedding call, so that
\* nothing can raise there.
C13_SearchToleratesAnyK ==
    harness # None =>
      LET store == stores[pipes[harness].vectorstore]
      IN /\ \A q \in Questions, k \in SearchKs :
               /\ Len(SimilaritySearch(store, Embed(q), k)) =
                     (IF k <= Len(store.index) THEN k ELSE Len(store.index))
               /\ Len(store.index) = 0 => SimilaritySearch(store, Embed(q), k) = <<>>
         /\ \A i \in Slots :
               (IsQuery(i) /\ task[i].use_rag /\ Len(store.index) = 0)
               => /\ "aembed_query" \notin SeqRange(task[i].calls)
                  /\ task[i].documents = <<>>
                  /\ ~Raises(i) \/ GenerationCalls(task[i].calls) # <<>>

\* C13 witness: a query asking for 3 documents has returned with the one document
\* the index holds.
C13_Witness ==
    /\ harness # None
    /\ Len(stores[pipes[harness].vectorstore].index) = 1
    /\ Returns(1)
    /\ task[1].use_rag
    /\ task[1].top_k = 3
    /\ Len(task[1].documents) = 1

Grounded(i) == Returns(i) /\ task[i].path = "generate"
FirstAt(documents, source) ==
    CHOOSE j \in DOMAIN documents :
        /\ documents[j].doc.source = source
        /\ \A h \in 1..(j - 1) : documents[h].doc.source # source

\* C14: the sources of a grounded response hold no value twice, hold the source of
\* every contributing document and nothing else, and stand in the order in which
\* the sources first appear among the retrieved documents.
C14_SourcesFirstSeenDistinct ==
    \A i \in Slots :
        Grounded(i) =>
          LET sources == task[i].response.sources
              documents == task[i].documents
          IN /\ \A a, b \in DOMAIN sources : a # b => sources[a] # sources[b]
             /\ SeqRange(sources) = {documents[j].doc.source : j \in DOMAIN documents}
             /\ \A a, b \in DOMAIN sources :
                   a < b => FirstAt(documents, sources[a]) < FirstAt(documents, sources[b])

\* C14 witness: a grounded response built from three documents, two of them chunks
\* of the same text, names two sources.
C14_Witness ==
    /\ Grounded(1)
    /\ Len(task[1].documents) = 3
    /\ task[1].response.sources = <<"t1", "t2">>

RECURSIVE ScoreSum(_, _)
ScoreSum(documents, n) ==
    IF n = 0 THEN RZero ELSE RAdd(ScoreSum(documents, n - 1), documents[n].score)

\* C15: the confidence of a grounded response is the sum of the scores of its
\* documents divided by their number, lies between the smallest and the largest of
\* these scores, and is at least the pipeline's threshold; the confidence of every
\* other returned response is 0.
C15_ConfidenceIsMean ==
    \A i \in Slots :
        /\ Grounded(i) =>
             LET documents == task[i].documents
                 n == Len(documents)
                 confidence == task[i].response.confidence
             IN /\ n > 0
                /\ REq(<<confidence[1] * n, confidence[2]>>, ScoreSum(documents, n))
                /\ \E j \in DOMAIN documents : RLeq(documents[j].score, confidence)
                /\ \E j \in DOMAIN documents : RLeq(confidence, documents[j].score)
                /\ RLeq(pipes[task[i].pipe].use_rag_threshold, confidence)
        /\ (Returns(i) /\ ~Grounded(i)) => REq(task[i].response.confidence, RZero)

\* C15 witness: a grounded response over the scores 1, 1/2, 1/2 has confidence 2/3.
C15_Witness ==
    /\ Grounded(1)
    /\ Len(task[1].documents) = 3
    /\ REq(task[1].documents[1].score, <<1, 1>>)
    /\ REq(task[1].documents[3].score, <<1, 2>>)
    /\ REq(task[1].response.confidence, <<2, 3>>)

SharedLength(prev, cur, overlap) ==
    LET fits == {n \in 0..overlap :
                    /\ n <= Len(prev)
                    /\ n <= Len(cur)
                    /\ SubSeq(prev, Len(prev) - n + 1, Len(prev)) = SubSeq(cur, 1, n)}
    IN CHOOSE n \in fits : \A m \in fits : m <= n

\* The chunks up to number n joined, each but the first without that prefix.
RECURSIVE Reconstructed(_, _, _)
Reconstructed(chunks, n, overlap) ==
    IF n = 0 THEN <<>>
    ELSE IF n = 1 THEN chunks[1]
    ELSE Reconstructed(chunks, n - 1, overlap)
         \o SubSeq(chunks[n], SharedLength(chunks[n - 1], chunks[n], overlap) + 1, Len(chunks[n]))

\* C17: the chunks the chunker returns, joined with the overlaps removed, are the
\* text it was given.
C17_ChunksReconstructText ==
    task[1].op = "finished_chunks"
    => Reconstructed(task[1].chunks, Len(task[1].chunks), task[1].overlap) = task[1].text

C19_FileFailureDoesNotAbortBatch ==
    [][\A i \in Slots, ok \in BOOLEAN :
          InitializationEmbedded(i, ok) =>
            LET me == task[i]
                t == me.tenant
                n == me.inst
                f == Head(me.files)
                later == {g \in SeqRange(Tail(me.files)) : FileChunks(t, g) # <<>>}
            IN /\ ~ok => stores'[n] = stores[n]
               /\ ok => stores'[n].documents = stores[n].documents \o FileDocuments(t, f)
               /\ later # {}
                  => /\ task'[i].op = me.op
                     /\ SeqRange(task'[i].files) = later
                     /\ task'[i].total = Len(stores'[n].documents)
                     /\ task'[i].total = me.total + (IF ok THEN Len(FileChunks(t, f)) ELSE 0)
                     /\ \A j \in DOMAIN stores'[n].documents :
                           stores'[n].documents[j].source \notin SeqRange(task'[i].failed)
               /\ later = {}
                  => /\ Len(stores'[n].documents)
                        = me.total + (IF ok THEN Len(FileChunks(t, f)) ELSE 0)
                     /\ task'[i].op = "finished"
                     /\ task'[i].pc = "returned" \/ task'[i].result = "TypeError"
                     /\ disk'[t] = SavedStore(stores'[n])]_vars

\* C19 witness: the first file of tenant a has failed, nothing is in the store, and
\* the call is embedding the second file.
C19_Witness ==
    /\ task[1].op = "initialize_tenant"
    /\ task[1].tenant = "a"
    /\ task[1].failed = <<"f1.txt">>
    /\ task[1].files = <<"f2.txt">>
    /\ task[1].total = 0
    /\ stores[task[1].inst].documents = <<>>

NextReload ==
    \/ \E t \in Tenants, cfg \in Configs : InitializeTenant(1, t, cfg, FALSE)
    \/ \E t \in Tenants, cfg \in Configs : ReloadTenant(1, t, cfg)
    \/ \E ok \in BOOLEAN : InitializationEmbedded(1, ok)
    \/ Release(1)
    \/ task[1] = Idle /\ \E t \in Tenants : \E f \in TenantFiles(t) : PutDocumentFile(t, f)

SpecReload == Init /\ [][NextReload]_vars

\* The step in which reload_tenant(t) of slot i returns the tenant's new pipeline.
ReloadCompletes(i, t) ==
    /\ task'[i] = Returned(t, pipelines'[t])
    /\ pipelines'[t] # None
    /\ \/ task[i].op = "reload_tenant" /\ task[i].tenant = t
       \/ \E cfg \in Configs : ReloadTenant(i, t, cfg)

\* The files whose embedding has failed in the call that slot i ends in this step.
FailedInCall(i) ==
    IF task[i].op \notin InitializationOps THEN {}
    ELSE SeqRange(task[i].failed)
         \cup (IF stores'[task[i].inst] = stores[task[i].inst]
               THEN {Head(task[i].files)} ELSE {})

EndsAtOnce(i, t) ==
    /\ task[i] = Idle
    /\ nextId' = nextId + 1
    /\ task'[i].op = "finished"
    /\ task'[i].tenant = t
EndsAfterEmbedding(i, t) ==
    /\ task[i].op \in InitializationOps
    /\ task[i].tenant = t
    /\ task'[i].op = "finished"

\* C22: a call that constructs the tenant's vector store restores it from the
\* persisted location when there is one; otherwise it ingests the document files
\* and persists the result; otherwise (no document file) the store is empty and
\* nothing is persisted; and in each case, the missing location included, the
\* call returns the pipeline.
C22_VectorStoreResolution ==
    [][\A i \in Slots, t \in Tenants :
          /\ EndsAtOnce(i, t)
             => /\ task'[i].pc = "returned"
                /\ disk[t].state = "saved"
                   => stores'[nextId] = LoadedStore(disk[t]) /\ disk' = disk
                /\ disk[t].state = "absent"
                   => /\ stores'[nextId] = NewStore
                      /\ docFiles[t] = {} => disk' = disk
                      /\ docFiles[t] # {} => disk'[t] = SavedStore(NewStore)
          /\ EndsAfterEmbedding(i, t)
             => /\ task'[i].pc = "returned"
                /\ disk[t].state = "absent"
                /\ disk'[t] = SavedStore(stores'[task[i].inst])
                /\ \A j \in DOMAIN stores'[task[i].inst].documents :
                      /\ stores'[task[i].inst].documents[j].source \in docFiles[t]
                      /\ stores'[task[i].inst].documents[j].file_path[1] = t]_vars

\* ------------------------------------------------- every kind of configuration
\* One caller at a time on tenant a, with every configuration.
NextConfig ==
    \/ \E cfg \in AllConfigs, force \in BOOLEAN : InitializeTenant(1, "a", cfg, force)
    \/ \E cfg \in AllConfigs : ReloadTenant(1, "a", cfg)
    \/ \E ok \in BOOLEAN : InitializationEmbedded(1, ok)
    \/ Release(1)
    \/ task[1] = Idle /\ \E f \in TenantFiles("a") : PutDocumentFile("a", f)

SpecConfig == Init /\ [][NextConfig]_vars

\* What a configuration lacks, as the claim puts it.
LacksRequired(cfg) ==
    \/ cfg.llm_type \in {"openrouter", "openai"} /\ ~cfg.credential
    \/ cfg.llm_type = "local" /\ ~cfg.credential
    \/ cfg.llm_type \notin {"openrouter", "openai", "local"}

\* C23: initialize_tenant that gets past the already-initialized check with a
\* configuration lacking its API key or model_path, or naming an unknown
\* llm_type, raises ValueError to its caller, constructs no LLM (no default
\* stands in for the secret), no store and no pipeline, and registers nothing;
\* reload_tenant with such a configuration raises likewise and leaves the tenant
\* without a pipeline.
C23_MissingCredentialIsFatal ==
    [][\A i \in Slots, t \in Tenants, cfg \in AllConfigs :
          LacksRequired(cfg)
          => /\ \A force \in BOOLEAN :
                   (~(pipelines[t] # None /\ ~force) /\ InitializeTenant(i, t, cfg, force))
                   => /\ task'[i] = Raised(t, "ValueError")
                      /\ UNCHANGED <<pipelines, llms, vectorstores, nextId, llmObjs, stores,
                                     pipes, disk>>
             /\ ReloadTenant(i, t, cfg)
                => /\ task'[i] = Raised(t, "ValueError")
                   /\ pipelines'[t] = None
                   /\ UNCHANGED <<nextId, llmObjs, stores, pipes, disk>>]_vars

\* C23 witness: a forced initialize_tenant of tenant a, which has one document in
\* its persisted index, has raised ValueError; only the one instance of the
\* earlier call was ever constructed.
C23_Witness ==
    /\ task[1] = Raised("a", "ValueError")
    /\ nextId = 2
    /\ vectorstores["a"] = 1
    /\ Len(disk["a"].index) = 1

\* ----------------------------------------------- queries beside other callers
\* Slot 1 builds the harness pipeline and tenant a's, and ingests; slot 2 queries
\* whatever pipeline it can get hold of, and may abandon its query.
NextQuery ==
    \/ TestSetup
    \/ \E x \in Texts : IngestText(1, x)
    \/ \E ok \in BOOLEAN : IngestEmbedded(1, ok)
    \/ InitializeTenant(1, "a", CfgOpenRouter, FALSE)
    \/ \E ok \in BOOLEAN : InitializationEmbedded(1, ok)
    \/ task[1] = Idle /\ PutDocumentFile("a", "f1.txt")
    \/ \E p \in Ids, q \in Questions, use_rag \in BOOLEAN, k \in QueryTopKArgs :
          Query(2, p, q, use_rag, k)
    \/ \E ok \in BOOLEAN : QueryEmbedded(2, ok)
    \/ \E outcome \in {"text", "error_text", "raise"} : QueryGenerated(2, outcome)
    \/ AbandonQuery(2)
    \/ \E i \in Slots : Release(i)

SpecQuery == Init /\ [][NextQuery]_vars

NextIdentity ==
    \/ \E t \in TenantIds, cfg \in Configs, force \in BOOLEAN : InitializeTenant(1, t, cfg, force)
    \/ \E t \in TenantIds, cfg \in Configs : ReloadTenant(1, t, cfg)
    \/ \E ok \in BOOLEAN : InitializationEmbedded(1, ok)
    \/ Release(1)
    \/ task[1] = Idle /\ PutDocumentFile("a", "f1.txt")

SpecIdentity == Init /\ [][NextIdentity]_vars

\* The tenant a tenant id denotes: the id in lower case.
Lower(id) == IF id = "A" THEN "a" ELSE id

\* C25: two tenant ids that differ only in letter case give the same pipeline from
\* get_pipeline once one of them is registered, list_tenants holds one entry for
\* them, and the empty tenant id has no entry in any registry map.
C25_TenantIdNormalized ==
    /\ \A s1, s2 \in TenantIds :
          (Lower(s1) = Lower(s2) /\ pipelines[s1] # None)
          => /\ get_pipeline(s2) = pipelines[s1]
             /\ Cardinality({s \in list_tenants : Lower(s) = Lower(s1)}) = 1
    /\ pipelines[""] = None
    /\ llms[""] = None
    /\ vectorstores[""] = None

\* C27: on every turn of the chunker's loop the cursor `start` grows (so the loop
\* ends after at most len(text) turns), and it is never negative.
C27_ChunkerCursorAdvances ==
    [][\A i \in Slots :
          (task[i].op = "chunk_text" /\ task'[i].op = "chunk_text")
          => /\ task'[i].start > task[i].start
             /\ task'[i].start >= 0]_vars

\* -------------------------------------------------------------- chat history
\* Number of messages up to which a history is followed.
MaxMessages == 3
Roles == {"user", "assistant"}
Contents == {"m1", "m2"}

\* seq[k:] of Python for any integer k: a negative k counts from the end.
SliceFrom(seq, k) ==
    LET from == IF k < 0 THEN (IF Len(seq) + k < 0 THEN 0 ELSE Len(seq) + k)
                ELSE Min(k, Len(seq))
    IN SubSeq(seq, from + 1, Len(seq))

\* ChatHistory.get_context line 23: the messages taken as context.
Recent(messages, max_messages) ==
    IF Len(messages) > max_messages THEN SliceFrom(messages, 0 - max_messages) ELSE messages

\* Line 24: each message reduced to its role and content.
get_context(messages, max_messages) ==
    LET recent == Recent(messages, max_messages)
    IN [j \in DOMAIN recent |-> [role |-> recent[j].role, content |-> recent[j].content]]

\* ChatHistory(user_id=...): no messages yet.
NewHistory(i) ==
    /\ task[i] = Idle
    /\ task' = [task EXCEPT ![i] =
                  [op |-> "chat_history", messages |-> <<>>, called |-> FALSE,
                   max_messages |-> 0, context |-> <<>>]]
    /\ UNCHANGED <<generatorParams, pipelines, llms, vectorstores, nextId, llmObjs, stores,
                   pipes, disk, docFiles, harness>>

\* add_message(role, content): a Message with the time of the call is appended.
AddMessage(i, role, content) ==
    /\ task[i].op = "chat_history"
    /\ Len(task[i].messages) < MaxMessages
    /\ task' = [task EXCEPT ![i] =
                  [op |-> "chat_history",
                   messages |-> Append(task[i].messages,
                                       [role |-> role, content |-> content,
                                        timestamp |-> Len(task[i].messages) + 1]),
                   called |-> FALSE, max_messages |-> 0, context |-> <<>>]]
    /\ UNCHANGED <<generatorParams, pipelines, llms, vectorstores, nextId, llmObjs, stores,
                   pipes, disk, docFiles, harness>>

\* get_context(max_messages) is called; its result is kept beside the history.
GetContext(i, max_messages) ==
    /\ task[i].op = "chat_history"
    /\ task' = [task EXCEPT ![i] =
                  [task[i] EXCEPT !.called = TRUE, !.max_messages = max_messages,
                                  !.context = get_context(task[i].messages, max_messages)]]
    /\ UNCHANGED <<generatorParams, pipelines, llms, vectorstores, nextId, llmObjs, stores,
                   pipes, disk, docFiles, harness>>

NextHistory ==
    \/ NewHistory(1)
    \/ \E role \in Roles, content \in Contents : AddMessage(1, role, content)
    \/ \E max_messages \in 0..(MaxMessages + 1) : GetContext(1, max_messages)

SpecHistory == Init /\ [][NextHistory]_vars

\* C26: after get_context(N), N >= 0, the result has min(N, len(history))
\* entries, entry j is the role and content of the message that many places from
\* the end, in the history's order (get_context assigns nothing to the history).
C26_ContextIsLastN ==
    \A i \in Slots :
        (task[i].op = "chat_history" /\ task[i].called)
        => LET messages == task[i].messages
               context == task[i].context
               n == Min(task[i].max_messages, Len(messages))
           IN /\ Len(context) = n
              /\ \A j \in 1..n :
                    /\ context[j].role = messages[Len(messages) - n + j].role
                    /\ context[j].content = messages[Len(messages) - n + j].content
                    /\ DOMAIN context[j] = {"role", "content"}

\* No initialize_tenant or reload_tenant call for tenant t is under way.
NoCallInProgress(t) ==
    \A i \in Slots : ~(task[i].op \in InitializationOps /\ task[i].tenant = t)

\* C28: while no initialize/reload call for tenant t is under way, t has an entry
\* in all three registry maps or in none, and the registered vector store and LLM
\* are the ones the registered pipeline's retriever and generator use.
C28_RegistryEntriesOneInstance ==
    \A t \in Tenants :
        NoCallInProgress(t)
        => /\ (get_pipeline(t) # None) = (get_llm(t) # None)
           /\ (get_pipeline(t) # None) = (get_vectorstore(t) # None)
           /\ get_pipeline(t) # None
              => /\ get_vectorstore(t) = pipes[get_pipeline(t)].vectorstore
                 /\ get_llm(t) = pipes[get_pipeline(t)].llm

SaveStore ==
    /\ harness # None
    /\ disk' = [disk EXCEPT !["a"] = SavedStore(stores[pipes[harness].vectorstore])]
    /\ UNCHANGED <<generatorParams, pipelines, llms, vectorstores, nextId, llmObjs, stores,
                   pipes, docFiles, harness, task>>

LoadStore ==
    /\ harness # None
    /\ stores' = [stores EXCEPT ![pipes[harness].vectorstore] =
                    IF disk["a"].state = "saved" THEN LoadedStore(disk["a"]) ELSE @]
    /\ UNCHANGED <<generatorParams, pipelines, llms, vectorstores, nextId, llmObjs,
                   pipes, disk, docFiles, harness, task>>

\* Two callers ingesting into the same store, with saves and loads in between.
NextStore ==
    \/ TestSetup
    \/ \E i \in Slots, x \in Texts : IngestText(i, x)
    \/ \E i \in Slots, ok \in BOOLEAN : IngestEmbedded(i, ok)
    \/ SaveStore
    \/ LoadStore
    \/ \E i \in Slots : Release(i)

SpecStore == Init /\ [][NextStore]_vars

\* The store has as many vectors as documents, vector j is the embedding of
\* document j, and a search returns one result for each of the
\* min(k, ntotal) positions the index gives.
StoreConsistent(store) ==
    /\ Len(store.index) = Len(store.documents)
    /\ \A j \in DOMAIN store.index : store.index[j] = Embed(store.documents[j].content)
    /\ \A q \in Questions, k \in SearchKs :
          Len(SimilaritySearch(store, Embed(q), k)) = Min(k, Len(store.index))

\* C30: every step that changes a store (add_documents ending, load, in any
\* interleaving with each other and with save) leaves it consistent, as the
\* empty store of the constructor is, and an add_documents whose
\* embedding call fails leaves every store as it was.
C30_IndexMatchesDocuments ==
    [][/\ \A n \in Ids : stores'[n] # stores[n] => StoreConsistent(stores'[n])
       /\ \A i \in Slots :
             (task[i].op = "ingest_text" /\ task'[i].op = "finished_ingest"
              /\ task'[i].pc = "raised")
             => stores' = stores]_vars

\* C30 witness: an add_documents has failed on a store that holds two documents
\* restored by load while another add_documents is waiting for its embeddings.
C30_Witness ==
    /\ harness # None
    /\ task[1].op = "finished_ingest"
    /\ task[1].pc = "raised"
    /\ task[2].op = "ingest_text"
    /\ disk["a"].state = "saved"
    /\ Len(disk["a"].documents) = 2
    /\ stores[pipes[harness].vectorstore] = LoadedStore(disk["a"])

====
